---- MODULE Spec2Model ----
(***************************************************************************)
(* Cerberus / Sentinel oracle: the sentinel agent (polling cycle, worker   *)
(* loop, heartbeat), its priority queue, the consensus engine (Forge and   *)
(* Seal) and the oracle's resolution consensus.                            *)
(*                                                                         *)
(* Twelve specifications share the module:                                 *)
(*   Spec          the sentinel agent with its MarketQueue                 *)
(*   HeartbeatSpec the agent's heartbeat with overlapping sentinel cycles  *)
(*   ConsensusSpec the ConsensusEngine's pure verdict functions            *)
(*   OracleSpec    resolveMarket / getLLMConsensus of the oracle service   *)
(*   QueueSpec     the MarketQueue's selection over arbitrary queues       *)
(*   ApiSpec       the oracle's HTTP endpoints that change market state    *)
(*   WebhookSpec   the same endpoints with the platform's webhooks         *)
(*   ValidatorSpec validateMarket of the oracle service                    *)
(*   RulesSpec     the validator's rule checks as time passes              *)
(*   PipelineSpec  processMarket through the three verification layers     *)
(*   OrchSpec      start, stop and polling of the CerberusOrchestrator     *)
(*   OrchLiveSpec  OrchSpec with every awaited call of a poll settling     *)
(***************************************************************************)
EXTENDS Integers, Sequences, FiniteSets

VARIABLES
    now,            \* Date.now(), in ms since the agent started
    pending,        \* MarketQueue.pending: entries in Map insertion order
    inProgress,     \* MarketQueue.inProgress
    tasks,          \* entries whose resolveFn invocation is running
    workerAwaiting, \* runWorkerLoop is awaiting the processNext it issued
    heartbeats,     \* SentinelAgent.heartbeats: market -> last check time
    scan,           \* rest of the scan result the running cycle iterates over
    chain,          \* transactions submitted to the ledger, per market
    escalated,      \* markets with an ESCALATION_TO_G1 entry in the event log
    returned,       \* what the handler that ran in the last step returned or logged
    proposedAt,     \* history: time of the proposal, per tracked market
    dropped,        \* history: markets that hit "Dropped after retries"
    hung,           \* entries whose resolveFn call will never return
    vault,          \* which backend keys loadVault() found
    replies,        \* ConsensusSpec: the raw replies of the three backends
    auditReply,     \* ConsensusSpec: the auditor's reply
    verdicts,       \* ConsensusSpec: what the engine computed from them
    request,        \* OracleSpec: the ResolutionRequest and its environment
    resolution,     \* OracleSpec: the ResolutionResult returned for it
    api,            \* ApiSpec: the oracle's database and the last request served
    validation,     \* ValidatorSpec: a validation request, the clock and the result
    pipeline,       \* PipelineSpec: a market before the three layers and its verdict
    sentinel,       \* HeartbeatSpec: the heartbeat calls in flight, finalize calls made
    orch            \* OrchSpec: the CerberusOrchestrator and its polls in flight

agentVars == <<now, pending, inProgress, tasks, workerAwaiting, heartbeats,
               scan, chain, escalated, returned, proposedAt, dropped, hung>>
consensusVars == <<replies, auditReply, verdicts>>
oracleVars == <<request, resolution>>
serviceVars == <<api, orch, validation, pipeline, sentinel>>
vars == <<agentVars, vault, consensusVars, oracleVars, serviceVars>>

----------------------------------------------------------------------------
(* Bounds of the model *)

MaxTicks == 3          \* time steps the clock may advance
CyclesPerTick == 81    \* polling intervals that pass per modelled time step

(* Program constants *)

CHECK_INTERVAL_MS == 30000
RETRY_LIMIT == 3
HEARTBEAT_MS == 900000
FINALIZE_MS == 7200000
LAYER1_THRESHOLD == 90     \* 0.9, confidences are modelled in hundredths

TICK_MS == CyclesPerTick * CHECK_INTERVAL_MS
\* The market accounts on chain
Markets == {1, 2}

\* Market.resolutionTime (unix seconds): market 1 has expired when the agent
\* starts, each further market expires one time step later.
resolutionTime(m) == (m - 1) * (TICK_MS \div 1000)

\* Market.totalLiquidity in SOL (lamports / LAMPORTS_PER_SOL).
totalLiquiditySol(m) == IF m % 3 = 1 THEN 5 ELSE IF m % 3 = 2 THEN 2000 ELSE 50

----------------------------------------------------------------------------
(* ConsensusEngine *)

NaN == -1   \* a confidence that is not a number (missing or non-numeric)

Answers == {"YES", "NO", "UNCERTAIN"}
\* "OTHER" stands for any answer outside the AIResponse enum
ReplyAnswers == Answers \cup {"OTHER"}
ConfValues == {0, 80, 100, NaN}

\* What a backend call can produce: an exception, text that is not JSON, or
\* a JSON object with whatever answer and confidence it carries.
RawReplies ==
    {[kind |-> k, answer |-> "UNCERTAIN", confidence |-> 0] : k \in {"throw", "garbage"}}
    \cup [kind : {"json"}, answer : ReplyAnswers, confidence : ConfValues]

createError == [answer |-> "UNCERTAIN", confidence |-> 0]

parseJSON(raw) ==
    IF raw.kind = "json"
    THEN [answer |-> raw.answer, confidence |-> raw.confidence]
    ELSE createError

askGemini(hasKey, raw) ==
    IF ~hasKey THEN createError
    ELSE IF raw.kind = "throw" THEN createError
    ELSE parseJSON(raw)

\* JSON.parse(raw) as AIResponse inside the try block
askGPT(hasKey, raw) ==
    IF ~hasKey THEN createError
    ELSE IF raw.kind = "json"
         THEN [answer |-> raw.answer, confidence |-> raw.confidence]
         ELSE createError

askPerplexity(hasKey, raw) ==
    IF ~hasKey THEN createError
    ELSE IF raw.kind = "throw" THEN createError
    ELSE parseJSON(raw)

AuditReplies == {"pass", "fail", "throw"}

\* The reason a failing auditor states in its reply
StatedReason == "Conclusion does not follow from the evidence"

\* { passed, reason }: skipped without an OpenAI client; the catch block
\* answers for a call that throws
auditLayer15(hasOpenAI, audit) ==
    IF ~hasOpenAI THEN [passed |-> TRUE, reason |-> "none"]
    ELSE IF audit = "pass" THEN [passed |-> TRUE, reason |-> "none"]
    ELSE IF audit = "fail" THEN [passed |-> FALSE, reason |-> StatedReason]
    ELSE [passed |-> FALSE, reason |-> "Audit Process Error"]

avgConf(a, b) == IF a = NaN \/ b = NaN THEN NaN ELSE (a + b) \div 2

\* x >= t in JavaScript: false when x is NaN
Geq(x, t) == x # NaN /\ x >= t

\* The Forge returning the primary verdict whatever the audit says
executeLayer1Forge_IgnoresAudit(gemini, gpt, audit) ==
    LET bothAgree == gemini.answer = gpt.answer
        avg == avgConf(gemini.confidence, gpt.confidence)
    IN  IF bothAgree /\ Geq(avg, LAYER1_THRESHOLD) /\ gemini.answer # "UNCERTAIN"
        THEN [answer |-> gemini.answer, confidence |-> avg,
              reasoning |-> <<"Layer 1 Consensus", "none">>]
        ELSE [answer |-> "UNCERTAIN", confidence |-> avg,
              reasoning |-> <<"Layer 1 Conflict or Low Confidence", "none">>]

\* reasoning: the text of the verdict and the audit reason it quotes
executeLayer1Forge(gemini, gpt, audit) ==
    LET bothAgree == gemini.answer = gpt.answer
        avg == avgConf(gemini.confidence, gpt.confidence)
    IN  IF bothAgree /\ Geq(avg, LAYER1_THRESHOLD) /\ gemini.answer # "UNCERTAIN"
        THEN IF audit.passed
             THEN [answer |-> gemini.answer, confidence |-> avg,
                   reasoning |-> <<"Layer 1 Consensus", "none">>]
             ELSE [answer |-> "UNCERTAIN", confidence |-> 0,
                   reasoning |-> <<"Layer 1.5 Audit Failed", audit.reason>>]
        ELSE [answer |-> "UNCERTAIN", confidence |-> avg,
              reasoning |-> <<"Layer 1 Conflict or Low Confidence", "none">>]

VoteCount(rs, a) == Cardinality({i \in DOMAIN rs : rs[i].answer = a})

\* The Seal deciding by majority instead of unanimity
executeLayer3Seal_Majority(gemini, gpt, perplexity) ==
    LET rs == <<gemini, gpt, perplexity>>
    IN  IF VoteCount(rs, "YES") >= 2 THEN [answer |-> "YES", confidence |-> 100]
        ELSE IF VoteCount(rs, "NO") >= 2 THEN [answer |-> "NO", confidence |-> 100]
        ELSE [answer |-> "UNCERTAIN", confidence |-> 0]

executeLayer3Seal(gemini, gpt, perplexity) ==
    LET rs == <<gemini, gpt, perplexity>>
    IN  IF VoteCount(rs, "YES") = 3 THEN [answer |-> "YES", confidence |-> 100]
        ELSE IF VoteCount(rs, "NO") = 3 THEN [answer |-> "NO", confidence |-> 100]
        ELSE [answer |-> "UNCERTAIN", confidence |-> 0]

\* The Forge as the agent calls it: both backends asked, then the audit.
Forge(v, g, p, a) ==
    executeLayer1Forge(askGemini(v.gemini, g), askGPT(v.openai, p),
                       auditLayer15(v.openai, a))

\* The Seal as the agent calls it: three backends asked.
Seal(v, g, p, x) ==
    executeLayer3Seal(askGemini(v.gemini, g), askGPT(v.openai, p),
                      askPerplexity(v.perplexity, x))

AllKeys == [gemini |-> TRUE, openai |-> TRUE, perplexity |-> TRUE]

\* Every result the Forge and the Seal can return to the agent, whose vault
\* holds all three keys, over all replies of the backends.
ForgeResults ==
    {Forge(AllKeys, g, p, a) : g \in RawReplies, p \in RawReplies, a \in AuditReplies}

SealResults ==
    {Seal(AllKeys, g, p, x) : g \in RawReplies, p \in RawReplies, x \in RawReplies}

----------------------------------------------------------------------------
(* MarketQueue *)

calculatePriority(m) ==
    LET sol == totalLiquiditySol(m)
    IN  IF sol > 1000 THEN 10
        ELSE IF sol > 100 THEN 8
        ELSE IF sol > 10 THEN 5
        ELSE 3

PendingKeys == {pending[i].market : i \in DOMAIN pending}

RemoveKey(q, m) == SelectSeq(q, LAMBDA e : e.market # m)

\* addBatch without the "already pending or running" test: the entry is set
\* anew, in place when the key is pending
add_Overwrites(m) ==
    LET entry == [market |-> m, priority |-> calculatePriority(m),
                  retries |-> 0, addedAt |-> now]
    IN  IF m \in PendingKeys
        THEN [i \in DOMAIN pending |->
                IF pending[i].market = m THEN entry ELSE pending[i]]
        ELSE Append(pending, entry)

\* addBatch without the check of the running set
add_IgnoresInProgress(m) ==
    IF m \in PendingKeys
    THEN pending
    ELSE Append(pending, [market |-> m, priority |-> calculatePriority(m),
                          retries |-> 0, addedAt |-> now])

\* addBatch([market]): skipped when the key is pending or running
add(m) ==
    IF m \in PendingKeys \/ m \in inProgress
    THEN pending
    ELSE Append(pending, [market |-> m, priority |-> calculatePriority(m),
                          retries |-> 0, addedAt |-> now])

\* The selection without the FIFO rule for equal priorities
RECURSIVE HighestFrom_NoFifo(_, _)
HighestFrom_NoFifo(q, highest) ==
    IF q = <<>> THEN highest
    ELSE LET queued == Head(q)
         IN  IF queued.priority > highest.priority
             THEN HighestFrom_NoFifo(Tail(q), queued)
             ELSE HighestFrom_NoFifo(Tail(q), highest)

RECURSIVE HighestFrom(_, _)
HighestFrom(q, highest) ==
    IF q = <<>> THEN highest
    ELSE LET queued == Head(q)
         IN  IF queued.priority > highest.priority
             THEN HighestFrom(Tail(q), queued)
             ELSE IF queued.priority = highest.priority /\ queued.addedAt < highest.addedAt
                  THEN HighestFrom(Tail(q), queued)
                  ELSE HighestFrom(Tail(q), highest)

\* defined for a non-empty pending map
getHighestPriority(q) == HighestFrom(Tail(q), Head(q))

getStats == [pending |-> Len(pending), inProgress |-> Cardinality(inProgress), completed |-> 0]

----------------------------------------------------------------------------
(* Oracle service: getLLMConsensus and resolveMarket *)

MaxNews == 3        \* news articles in an evidence collection
MaxOfficial == 2    \* official statements in an evidence collection

llmAgreementThreshold == 66
resolutionConfidenceThreshold == 80

Min(a, b) == IF a < b THEN a ELSE b

\* "other" stands for any outcome outside the ResolutionLLMOutput enum
VoteOutcomes == {"yes", "no", "unresolvable", "other"}
\* result.confidence is stored as parsed: NaN stands for a missing or
\* non-numeric confidence field
VoteConfidences == {60, 100, NaN}

\* What a provider does for one resolution: it is not in enabledLLMs
\* ("disabled"), it has no API key configured ("nokey"), its call or the
\* parsing of its answer throws, or it answers with a JSON object.
LLMReplies ==
    {[kind |-> k, outcome |-> "unresolvable", confidence |-> 0] :
        k \in {"disabled", "nokey", "throw"}}
    \cup [kind : {"json"}, outcome : VoteOutcomes, confidence : VoteConfidences]

\* isLLMEnabled(provider) && ENV.<PROVIDER>_API_KEY
Asked(reply) == reply.kind \notin {"disabled", "nokey"}

resolveMarketWithAnthropic(reply) ==
    IF reply.kind = "json"
    THEN [provider |-> "anthropic", vote |-> reply.outcome, confidence |-> reply.confidence]
    ELSE [provider |-> "anthropic", vote |-> "unresolvable", confidence |-> 0]

resolveMarketWithOpenAI(reply) ==
    IF reply.kind = "json"
    THEN [provider |-> "openai", vote |-> reply.outcome, confidence |-> reply.confidence]
    ELSE [provider |-> "openai", vote |-> "unresolvable", confidence |-> 0]

CountVotes(votes, v) == Cardinality({i \in DOMAIN votes : votes[i].vote = v})

\* The consensus with the tie between yes and another answer given to yes
getLLMConsensus_YesOnTie(anthropic, openai) ==
    LET votes == (IF Asked(anthropic)
                  THEN <<resolveMarketWithAnthropic(anthropic)>> ELSE <<>>)
                 \o (IF Asked(openai)
                     THEN <<resolveMarketWithOpenAI(openai)>> ELSE <<>>)
        yesVotes == CountVotes(votes, "yes")
        noVotes == CountVotes(votes, "no")
        unresolvableVotes == CountVotes(votes, "unresolvable")
        totalVotes == Len(votes)
    IN  IF totalVotes = 0
        THEN [votes |-> <<>>, finalVerdict |-> "unresolvable", agreementLevel |-> 0]
        ELSE IF yesVotes >= noVotes /\ yesVotes >= unresolvableVotes /\ yesVotes > 0
        THEN [votes |-> votes, finalVerdict |-> "yes",
              agreementLevel |-> (yesVotes * 100) \div totalVotes]
        ELSE IF noVotes > yesVotes /\ noVotes > unresolvableVotes
        THEN [votes |-> votes, finalVerdict |-> "no",
              agreementLevel |-> (noVotes * 100) \div totalVotes]
        ELSE [votes |-> votes, finalVerdict |-> "unresolvable",
              agreementLevel |-> (unresolvableVotes * 100) \div totalVotes]

getLLMConsensus(anthropic, openai) ==
    LET votes == (IF Asked(anthropic)
                  THEN <<resolveMarketWithAnthropic(anthropic)>> ELSE <<>>)
                 \o (IF Asked(openai)
                     THEN <<resolveMarketWithOpenAI(openai)>> ELSE <<>>)
        yesVotes == CountVotes(votes, "yes")
        noVotes == CountVotes(votes, "no")
        unresolvableVotes == CountVotes(votes, "unresolvable")
        totalVotes == Len(votes)
    IN  IF totalVotes = 0
        THEN [votes |-> <<>>, finalVerdict |-> "unresolvable", agreementLevel |-> 0]
        ELSE IF yesVotes > noVotes /\ yesVotes > unresolvableVotes
        THEN [votes |-> votes, finalVerdict |-> "yes",
              agreementLevel |-> (yesVotes * 100) \div totalVotes]
        ELSE IF noVotes > yesVotes /\ noVotes > unresolvableVotes
        THEN [votes |-> votes, finalVerdict |-> "no",
              agreementLevel |-> (noVotes * 100) \div totalVotes]
        ELSE [votes |-> votes, finalVerdict |-> "unresolvable",
              agreementLevel |-> (unresolvableVotes * 100) \div totalVotes]

calculateEvidenceStrength(evidence) ==
    Min((IF evidence.sourceUrlContent = "text" THEN 20 ELSE 0)
        + Min(evidence.newsArticles * 10, 30)
        + Min(evidence.officialStatements * 15, 30)
        + evidence.verified * 10, 100)

\* votes.reduce((sum, v) => sum + v.confidence, 0): NaN once a term is NaN
RECURSIVE SumConfidence(_)
SumConfidence(votes) ==
    IF votes = <<>> THEN 0
    ELSE LET rest == SumConfidence(Tail(votes))
         IN  IF Head(votes).confidence = NaN \/ rest = NaN THEN NaN
             ELSE Head(votes).confidence + rest

\* sum / votes.length
AvgConfidence(votes) ==
    IF SumConfidence(votes) = NaN THEN NaN ELSE SumConfidence(votes) \div Len(votes)

\* x < t in JavaScript: false when x is NaN
Lt(x, t) == x # NaN /\ x < t

PayAction(verdict) ==
    IF verdict = "yes" THEN "pay_yes_holders"
    ELSE IF verdict = "no" THEN "pay_no_holders"
    ELSE "refund_all"

determineOutcome(consensus, evidence) ==
    LET avgConfidence == AvgConfidence(consensus.votes)
        evidenceStrength == calculateEvidenceStrength(evidence)
    IN  IF Len(consensus.votes) = 0
        THEN [outcome |-> "unresolvable", confidence |-> 0, action |-> "refund_all"]
        ELSE IF consensus.agreementLevel < llmAgreementThreshold
        THEN [outcome |-> "unresolvable", confidence |-> consensus.agreementLevel,
              action |-> "flag_for_manual_resolution"]
        ELSE IF Lt(avgConfidence, resolutionConfidenceThreshold)
        THEN [outcome |-> consensus.finalVerdict, confidence |-> avgConfidence,
              action |-> "flag_for_manual_resolution"]
        ELSE IF evidenceStrength >= 50 /\ consensus.agreementLevel >= 66
        THEN [outcome |-> consensus.finalVerdict,
              confidence |-> IF avgConfidence = NaN THEN NaN
                             ELSE (avgConfidence + evidenceStrength + 1) \div 2,
              action |-> PayAction(consensus.finalVerdict)]
        ELSE [outcome |-> consensus.finalVerdict, confidence |-> avgConfidence,
              action |-> "flag_for_manual_resolution"]

createForcedResolution(req) ==
    [done |-> TRUE,
     outcome |-> req.forcedResolution,
     llmConsensus |-> [votes |-> <<>>, finalVerdict |-> req.forcedResolution,
                       agreementLevel |-> 100],
     confidence |-> 100,
     action |-> PayAction(req.forcedResolution)]

resolveMarket(req) ==
    LET evidence == req.evidence
        hasEvidence == \/ evidence.sourceUrlContent # "null"
                       \/ evidence.newsArticles > 0
                       \/ evidence.officialStatements > 0
        llmConsensus == getLLMConsensus(req.anthropic, req.openai)
        decision == determineOutcome(llmConsensus, evidence)
    IN  IF req.forcedResolution # "none"
        THEN createForcedResolution(req)
        ELSE IF ~hasEvidence
        THEN [done |-> TRUE,
              outcome |-> "unresolvable",
              llmConsensus |-> [votes |-> <<>>, finalVerdict |-> "unresolvable",
                                agreementLevel |-> 100],
              confidence |-> 0,
              action |-> "refund_all"]
        ELSE [done |-> TRUE,
              outcome |-> decision.outcome,
              llmConsensus |-> llmConsensus,
              confidence |-> decision.confidence,
              action |-> decision.action]

Evidences ==
    {e \in [sourceUrlContent : {"null", "empty", "text"},
            newsArticles : 0..MaxNews,
            officialStatements : 0..MaxOfficial,
            verified : 0..MaxOfficial] : e.verified <= e.officialStatements}

Requests ==
    [forcedResolution : {"none", "yes", "no", "unresolvable"},
     evidence : Evidences,
     anthropic : LLMReplies,
     openai : LLMReplies]

\* resolution: resolveMarket has not returned
NoResolution ==
    [done |-> FALSE, outcome |-> "unresolvable",
     llmConsensus |-> [votes |-> <<>>, finalVerdict |-> "unresolvable", agreementLevel |-> 0],
     confidence |-> 0, action |-> "none"]

IdleOracle ==
    /\ request = [forcedResolution |-> "none",
                  evidence |-> [sourceUrlContent |-> "null", newsArticles |-> 0,
                                officialStatements |-> 0, verified |-> 0],
                  anthropic |-> [kind |-> "disabled", outcome |-> "unresolvable", confidence |-> 0],
                  openai |-> [kind |-> "disabled", outcome |-> "unresolvable", confidence |-> 0]]
    /\ resolution = NoResolution

----------------------------------------------------------------------------
(* Oracle HTTP server: the endpoints that change a market *)

MaxAdminActions == 1    \* rows the admin_actions table may hold
MaxValidating == 1      \* background validations of one market in flight

\* config.adminAddresses, from ADMIN_ADDRESSES
adminAddresses == {"admin"}

\* adminAddress of a request body; "mallory" is any value outside the set,
\* a missing field included
Addresses == {"admin", "mallory"}

isAdminAddress_Any(address) == TRUE

isAdminAddress(address) == address \in adminAddresses

\* The markets table, and the ids a request may name
DbMarkets == {"m1"}
RequestIds == DbMarkets \cup {"missing"}

getMarketById(id) == id \in DbMarkets

\* actionType of a request body; "unknown" is any value the switch has no
\* case for
AdminActionTypes ==
    {"manual_approve", "manual_reject", "manual_resolve_yes",
     "manual_resolve_no", "flag_suspicious", "unknown"}

\* The status the switch of POST /admin/action sets
ActionStatus(actionType) ==
    IF actionType = "manual_approve" THEN "active"
    ELSE IF actionType = "manual_reject" THEN "rejected"
    ELSE IF actionType = "manual_resolve_yes" THEN "resolved_yes"
    ELSE IF actionType = "manual_resolve_no" THEN "resolved_no"
    ELSE "flagged"

\* `resolved_${result.outcome}`
ResolvedStatus(outcome) ==
    IF outcome = "yes" THEN "resolved_yes"
    ELSE IF outcome = "no" THEN "resolved_no"
    ELSE "resolved_unresolvable"

\* forcedResolution of a request body; "none": the field is absent
ForcedValues == {"none", "yes", "no", "unresolvable"}

forcedDenied_Never(forcedResolution, adminAddress) == FALSE

\* forcedResolution && !isAdminAddress(adminAddress)
forcedDenied(forcedResolution, adminAddress) ==
    forcedResolution # "none" /\ ~isAdminAddress(adminAddress)

\* Every result resolveMarket returns for a request without forcedResolution,
\* over all evidence collections and provider answers.
AutomaticResults ==
    {[outcome |-> r.outcome, action |-> r.action] :
        r \in {resolveMarket(q) : q \in {x \in Requests : x.forcedResolution = "none"}}}

\* resolutions: no row for the market
NoRow == [outcome |-> "none", action |-> "none", forced |-> FALSE, adminAddress |-> "none"]

NoRequest ==
    [endpoint |-> "none", adminAddress |-> "none", marketId |-> "none",
     actionType |-> "none", forcedResolution |-> "none"]

IdleApi ==
    api = [status |-> [id \in DbMarkets |-> "active"],
           adminActions |-> <<>>,
           resolutions |-> [id \in DbMarkets |-> NoRow],
           validating |-> [id \in DbMarkets |-> 0],
           overridden |-> [id \in DbMarkets |-> FALSE],
           request |-> NoRequest,
           response |-> 0]

----------------------------------------------------------------------------
(* The oracle's market validator *)

MaxExpiry == 2      \* latest expiresAt of a request, in hours after time 0
MaxClock == 2       \* hours the validator's clock may advance

validationScoreThreshold == 70
MIN_HOURS_TO_EXPIRY == 1
MAX_DAYS_TO_EXPIRY == 365

\* Hostnames as their sequences of labels
BLACKLISTED_DOMAINS == {<<"theonion", "com">>, <<"babylonbee", "com">>}
SOCIAL_MEDIA_DOMAINS == {<<"x", "com">>, <<"reddit", "com">>}

\* sourceUrl of a request; wellFormed: new URL(url) does not throw
SourceUrls ==
    [wellFormed : {TRUE},
     host : {<<"theonion", "com">>, <<"www", "theonion", "com">>,
             <<"nottheonion", "com">>, <<"x", "com">>, <<"example", "org">>}]
        \cup {[wellFormed |-> FALSE, host |-> <<"theonion", "com">>]}

\* urlObj.hostname.replace(/^www\./, '')
StripWww(host) ==
    IF Len(host) > 1 /\ Head(host) = "www" THEN Tail(host) ELSE host

\* domain === d || domain.endsWith('.' + d)
DomainMatches(domain, d) ==
    /\ Len(domain) >= Len(d)
    /\ SubSeq(domain, Len(domain) - Len(d) + 1, Len(domain)) = d

analyzeDomain(url) ==
    IF url.wellFormed
    THEN LET domain == StripWww(url.host)
         IN  [isBlacklisted |-> \E d \in BLACKLISTED_DOMAINS : DomainMatches(domain, d),
              isSocialMedia |-> \E d \in SOCIAL_MEDIA_DOMAINS : DomainMatches(domain, d)]
    ELSE [isBlacklisted |-> FALSE, isSocialMedia |-> FALSE]

\* validateUrl(url): the score of its LayerResult, passed only with 100;
\* head: what the HEAD request meets ("ok", "status4xx", "notfound")
validateUrl(url, head) ==
    IF ~url.wellFormed THEN 0
    ELSE IF head = "ok" THEN 100
    ELSE IF head = "status4xx" THEN 20
    ELSE 0

\* The score of the content layer; page: extractContent(url) returned null,
\* a page of at most 100 characters of body text ("short") or a longer one
ContentScore(page) ==
    IF page = "long" THEN 100 ELSE IF page = "short" THEN 30 ELSE 0

\* What the rule patterns find in a title and description: the title has
\* the shape of a binary question, contains an ambiguous term, matches a
\* subjective pattern or keyword; title or description match a date pattern.
Titles == [binary : BOOLEAN, ambiguous : BOOLEAN, subjective : BOOLEAN, dated : BOOLEAN]

\* expiresAt of a request, in hours; the last one lies beyond the longest
\* allowed horizon at any clock
ExpiryTimes == 0..MaxExpiry \cup {MAX_DAYS_TO_EXPIRY * 24 + MaxClock + 1}

\* checkHasDate(title, description, expiresAt) called at time clock (hours)
checkHasDate(title, expiresAt, clock) ==
    LET minExpiry == clock + MIN_HOURS_TO_EXPIRY
        maxExpiry == clock + MAX_DAYS_TO_EXPIRY * 24
    IN  IF expiresAt < minExpiry \/ expiresAt > maxExpiry THEN FALSE
        ELSE IF title.dated THEN TRUE
        ELSE expiresAt > clock

\* checkResolvability(request) called at time clock
checkResolvability(title, expiresAt, clock) ==
    [isResolvable |-> title.binary,
     hasClearOutcome |-> ~title.ambiguous,
     hasVerifiableDate |-> checkHasDate(title, expiresAt, clock),
     isObjective |-> ~title.subjective]

ResolvabilityScore(check) ==
    (IF check.isResolvable THEN 25 ELSE 0) + (IF check.hasClearOutcome THEN 25 ELSE 0)
    + (IF check.hasVerifiableDate THEN 25 ELSE 0) + (IF check.isObjective THEN 25 ELSE 0)

ResolvabilityFlags(check) ==
    {f \in {"not_resolvable", "unclear_outcome", "no_clear_date", "subjective_question"} :
        \/ f = "not_resolvable" /\ ~check.isResolvable
        \/ f = "unclear_outcome" /\ ~check.hasClearOutcome
        \/ f = "no_clear_date" /\ ~check.hasVerifiableDate
        \/ f = "subjective_question" /\ ~check.isObjective}

\* The JSON object a validator model answers with, or a failed call
ValidatorReplies ==
    [kind : {"json"}, isBinaryResolvable : BOOLEAN, confidenceScore : {0, 70, NaN},
     potentialIssues : {{}, {"vague_wording"}, {"vague_wording", "no_clear_date"}}]
        \cup {[kind |-> "throw", isBinaryResolvable |-> FALSE, confidenceScore |-> 0,
               potentialIssues |-> {}]}

\* validateMarketWithAnthropic / validateMarketWithOpenAI
validateMarketWithLLM(reply) ==
    IF reply.kind = "json"
    THEN [isBinaryResolvable |-> reply.isBinaryResolvable,
          confidenceScore |-> reply.confidenceScore,
          potentialIssues |-> reply.potentialIssues]
    ELSE [isBinaryResolvable |-> FALSE, confidenceScore |-> 0,
          potentialIssues |-> {"LLM analysis failed"}]

\* Math.round(totalScore), the four weighted layer scores summed
FinalScore(urlScore, contentScore, resolvabilityScore, confidenceScore) ==
    IF confidenceScore = NaN THEN NaN
    ELSE (15 * urlScore + 15 * contentScore + 20 * resolvabilityScore
          + 50 * confidenceScore + 50) \div 100

\* The decision rules with the score rules ahead of the blacklist rule
Verdict_ScoreFirst(riskFlags, llmAnalysis, finalScore) ==
    IF Geq(finalScore, validationScoreThreshold) /\ Geq(llmAnalysis.confidenceScore, 70)
    THEN [status |-> "approved", action |-> "approve_market"]
    ELSE IF "blacklisted_domain" \in riskFlags
    THEN [status |-> "rejected", action |-> "reject_and_burn"]
    ELSE IF ~llmAnalysis.isBinaryResolvable
    THEN [status |-> "rejected", action |-> "reject_and_burn"]
    ELSE IF Geq(finalScore, 50) \/ Cardinality(riskFlags) <= 2
    THEN [status |-> "flagged", action |-> "flag_for_review"]
    ELSE [status |-> "rejected", action |-> "reject_and_burn"]

\* The decision rules of validateMarket
Verdict(riskFlags, llmAnalysis, finalScore) ==
    IF "blacklisted_domain" \in riskFlags
    THEN [status |-> "rejected", action |-> "reject_and_burn"]
    ELSE IF ~llmAnalysis.isBinaryResolvable
    THEN [status |-> "rejected", action |-> "reject_and_burn"]
    ELSE IF Geq(finalScore, validationScoreThreshold) /\ Geq(llmAnalysis.confidenceScore, 70)
    THEN [status |-> "approved", action |-> "approve_market"]
    ELSE IF Geq(finalScore, 50) \/ Cardinality(riskFlags) <= 2
    THEN [status |-> "flagged", action |-> "flag_for_review"]
    ELSE [status |-> "rejected", action |-> "reject_and_burn"]

\* validateMarket(request) called at time clock
validateMarket(req, clock) ==
    LET domainAnalysis == analyzeDomain(req.sourceUrl)
        urlScore == IF domainAnalysis.isBlacklisted THEN 0
                    ELSE validateUrl(req.sourceUrl, req.head)
        urlPassed == ~domainAnalysis.isBlacklisted
                        /\ validateUrl(req.sourceUrl, req.head) = 100
        resolvabilityCheck == checkResolvability(req.title, req.expiresAt, clock)
        resolvabilityScore == ResolvabilityScore(resolvabilityCheck)
        ruleFlags ==
            (IF validateUrl(req.sourceUrl, req.head) = 100 THEN {} ELSE {"invalid_url"})
            \cup (IF domainAnalysis.isBlacklisted THEN {"blacklisted_domain"} ELSE {})
            \cup (IF domainAnalysis.isSocialMedia THEN {"social_media_source"} ELSE {})
            \cup (IF req.page = "long" THEN {} ELSE {"content_extraction_failed"})
            \cup ResolvabilityFlags(resolvabilityCheck)
        llmAnalysis ==
            IF req.provider = "none"
            THEN [isBinaryResolvable |-> resolvabilityCheck.hasClearOutcome,
                  confidenceScore |-> resolvabilityScore,
                  potentialIssues |-> ruleFlags]
            ELSE validateMarketWithLLM(req.reply)
        riskFlags == ruleFlags \cup llmAnalysis.potentialIssues
        finalScore == FinalScore(urlScore, ContentScore(req.page), resolvabilityScore,
                                 llmAnalysis.confidenceScore)
        verdict == Verdict(riskFlags, llmAnalysis, finalScore)
    IN  [done |-> TRUE,
         status |-> verdict.status,
         action |-> verdict.action,
         score |-> finalScore,
         confidence |-> llmAnalysis.confidenceScore,
         riskFlags |-> riskFlags,
         urlPassed |-> urlPassed,
         resolvabilityCheck |-> resolvabilityCheck]

\* provider: the validator model configured (ANTHROPIC_API_KEY, else
\* OPENAI_API_KEY, else none)
ValidationRequests ==
    {r \in [sourceUrl : SourceUrls, head : {"ok", "status4xx", "notfound"},
            page : {"null", "short", "long"}, title : Titles, expiresAt : ExpiryTimes,
            provider : {"anthropic", "openai", "none"}, reply : ValidatorReplies] :
        /\ ~r.sourceUrl.wellFormed => r.head = "notfound" /\ r.page = "null"
        /\ r.provider = "none" => r.reply.kind = "throw"}

NoValidation ==
    [done |-> FALSE, status |-> "none", action |-> "none", score |-> 0, confidence |-> 0,
     riskFlags |-> {}, urlPassed |-> FALSE,
     resolvabilityCheck |-> [isResolvable |-> FALSE, hasClearOutcome |-> FALSE,
                             hasVerifiableDate |-> FALSE, isObjective |-> FALSE]]

NoValidationRequest ==
    [sourceUrl |-> [wellFormed |-> FALSE, host |-> <<"theonion", "com">>],
     head |-> "notfound", page |-> "null",
     title |-> [binary |-> FALSE, ambiguous |-> FALSE, subjective |-> FALSE,
                dated |-> FALSE],
     expiresAt |-> 0, provider |-> "none",
     reply |-> [kind |-> "throw", isBinaryResolvable |-> FALSE, confidenceScore |-> 0,
                potentialIssues |-> {}]]

IdleValidation ==
    validation = [request |-> NoValidationRequest, clock |-> 0, result |-> NoValidation]

----------------------------------------------------------------------------
(* The three verification layers and processMarket *)

layer2MinConfidence == 70
layer3MinTrust == 70

\* What the gatherer, the model of layer 2 and the source URL give for one
\* market. llmEnough: the model of layer 1 reports enough information with
\* confidence 50 or more; facts: extractedFacts.length; resolvable: the
\* model of layer 2 reports is_resolvable and has_clear_outcome; date: the
\* suggested resolution date is absent, parses to an acceptable date, or not;
\* domain: what the hostname of the source URL is.
MarketInputs ==
    [sourceAccessible : BOOLEAN, news : BOOLEAN, social : BOOLEAN, facts : 0..2,
     longContent : BOOLEAN, llmEnough : BOOLEAN,
     resolvable : BOOLEAN, isObjective : BOOLEAN, confidenceScore : {50, 70, 100},
     date : {"none", "valid", "invalid"},
     domain : {"trusted", "plain", "blacklisted", "malformed"}]

\* Layer1Gatherer.process: passed is evaluateInformation's result
runLayer1(in) ==
    [passed |-> in.llmEnough /\ (in.sourceAccessible \/ in.news),
     sourceAccessible |-> in.sourceAccessible]

\* Layer2Confirmer.process
runLayer2(in, layer1) ==
    LET layer1Confirmed == layer1.passed /\ in.facts # 0
    IN  [passed |-> /\ layer1Confirmed
                    /\ in.resolvable
                    /\ in.confidenceScore >= layer2MinConfidence,
         isObjective |-> in.isObjective,
         confidenceScore |-> in.confidenceScore,
         suggestedResolutionDate |-> in.date]

\* The verdict rules with the checkmark also given to a flagged market
determineFinalVerdict_FlaggedEarns(sourceValidation, eventValidation, dateValidation, layer2) ==
    LET overallScore10 == 3 * sourceValidation.trustScore
                            + 3 * eventValidation.evidenceScore
                            + 4 * layer2.confidenceScore
    IN  IF /\ sourceValidation.isTrustworthy
           /\ eventValidation.isReal
           /\ dateValidation.isValid
           /\ layer2.passed
           /\ overallScore10 >= 700
        THEN [verdict |-> "APPROVED", checkmarkEarned |-> TRUE]
        ELSE IF overallScore10 >= 400 /\ sourceValidation.isTrustworthy
        THEN [verdict |-> "FLAGGED", checkmarkEarned |-> TRUE]
        ELSE [verdict |-> "REJECTED", checkmarkEarned |-> FALSE]

\* Layer3Validator.determineFinalVerdict; overallScore10 is ten times the
\* overall score
determineFinalVerdict(sourceValidation, eventValidation, dateValidation, layer2) ==
    LET overallScore10 == 3 * sourceValidation.trustScore
                            + 3 * eventValidation.evidenceScore
                            + 4 * layer2.confidenceScore
    IN  IF /\ sourceValidation.isTrustworthy
           /\ eventValidation.isReal
           /\ dateValidation.isValid
           /\ layer2.passed
           /\ overallScore10 >= 700
        THEN [verdict |-> "APPROVED", checkmarkEarned |-> TRUE]
        ELSE IF overallScore10 >= 400 /\ (~sourceValidation.isTrustworthy) = FALSE
        THEN [verdict |-> "FLAGGED", checkmarkEarned |-> FALSE]
        ELSE [verdict |-> "REJECTED", checkmarkEarned |-> FALSE]

\* Layer3Validator.process with validateSource, validateEvent, validateDate
runLayer3(in, layer1, layer2) ==
    LET trustScore == 50 + (IF in.domain = "trusted" THEN 40 ELSE 0)
                         + (IF in.news THEN 10 ELSE 0)
                         + (IF in.longContent THEN 10 ELSE 0)
        validateSource ==
            IF ~layer1.sourceAccessible \/ in.domain = "malformed"
            THEN [isReal |-> FALSE, isTrustworthy |-> FALSE, trustScore |-> 0]
            ELSE IF in.domain = "blacklisted"
            THEN [isReal |-> TRUE, isTrustworthy |-> FALSE, trustScore |-> 10]
            ELSE [isReal |-> TRUE, isTrustworthy |-> trustScore >= layer3MinTrust,
                  trustScore |-> Min(100, trustScore)]
        evidenceScore == (IF layer1.passed THEN 25 ELSE 0)
                            + (IF in.news THEN 20 ELSE 0)
                            + (IF in.social THEN 10 ELSE 0)
                            + (IF in.facts >= 2 THEN 15 ELSE 0)
                            + (IF layer2.passed THEN 20 ELSE 0)
                            + (IF layer2.isObjective THEN 10 ELSE 0)
        validateEvent == [isReal |-> evidenceScore >= 50, evidenceScore |-> evidenceScore]
        validateDate == [isValid |-> layer2.suggestedResolutionDate # "invalid"]
        final == determineFinalVerdict(validateSource, validateEvent, validateDate, layer2)
    IN  [passed |-> final.verdict = "APPROVED",
         finalVerdict |-> final.verdict,
         checkmarkEarned |-> final.checkmarkEarned]

\* CerberusOrchestrator.processMarket: the verdict it returns, and whether
\* sendVerificationResult and requestRefund were called on the Djinn client
processMarket(in) ==
    LET layer1 == runLayer1(in)
        layer2 == runLayer2(in, layer1)
        layer3 == runLayer3(in, layer1, layer2)
        createRejectedVerdict ==
            [done |-> TRUE, layer1 |-> layer1.passed, layer2 |-> FALSE, layer3 |-> FALSE,
             finalStatus |-> "REJECTED", action |-> "REFUND_AND_DELETE",
             checkmark |-> FALSE, sent |-> FALSE, refundRequested |-> FALSE]
        createFlaggedVerdict ==
            [done |-> TRUE, layer1 |-> layer1.passed, layer2 |-> layer2.passed,
             layer3 |-> FALSE,
             finalStatus |-> "FLAGGED", action |-> "MANUAL_REVIEW",
             checkmark |-> FALSE, sent |-> FALSE, refundRequested |-> FALSE]
        action == IF layer3.finalVerdict = "APPROVED" THEN "APPROVE"
                  ELSE IF layer3.finalVerdict = "FLAGGED" THEN "MANUAL_REVIEW"
                  ELSE "REFUND_AND_DELETE"
    IN  IF ~layer1.passed THEN createRejectedVerdict
        ELSE IF ~layer2.passed THEN createFlaggedVerdict
        ELSE [done |-> TRUE, layer1 |-> layer1.passed, layer2 |-> layer2.passed,
              layer3 |-> layer3.passed,
              finalStatus |-> IF layer3.finalVerdict = "APPROVED" THEN "VERIFIED"
                              ELSE IF layer3.finalVerdict = "FLAGGED" THEN "FLAGGED"
                              ELSE "REJECTED",
              action |-> action,
              checkmark |-> layer3.checkmarkEarned,
              sent |-> TRUE,
              refundRequested |-> action = "REFUND_AND_DELETE"]

\* verifiedMarkets holds no verdict for the market
NoVerdict ==
    [done |-> FALSE, layer1 |-> FALSE, layer2 |-> FALSE, layer3 |-> FALSE,
     finalStatus |-> "none", action |-> "none", checkmark |-> FALSE, sent |-> FALSE,
     refundRequested |-> FALSE]

IdlePipeline ==
    pipeline = [market |-> [sourceAccessible |-> FALSE, news |-> FALSE, social |-> FALSE,
                            facts |-> 0, longContent |-> FALSE, llmEnough |-> FALSE,
                            resolvable |-> FALSE, isObjective |-> FALSE,
                            confidenceScore |-> 50, date |-> "none",
                            domain |-> "malformed"],
                verdict |-> NoVerdict]

----------------------------------------------------------------------------
(* CerberusOrchestrator *)

MaxPolls == 3         \* pollForNewMarkets calls the interval has in flight at one time
MaxNewMarkets == 2    \* markets the platform lists
MaxStarts == 2        \* start() calls made on the orchestrator

\* A pollForNewMarkets call awaiting fetchNewMarkets
NewPoll(isInitial) == [initial |-> isInitial, busy |-> FALSE, current |-> 0, batch |-> {}]

RemoveAt(q, i) == SubSeq(q, 1, i - 1) \o SubSeq(q, i + 1, Len(q))

\* The filter returning the markets not seen before without recording them
fetchNewMarkets_NoMark(listed) ==
    [newMarkets |-> listed \ orch.knownMarketIds,
     knownMarketIds |-> orch.knownMarketIds]

\* fetchNewMarkets, fetchAllMarkets having returned the markets listed: the
\* filter keeps the markets not in knownMarketIds and adds them to it
fetchNewMarkets(listed) ==
    [newMarkets |-> listed \ orch.knownMarketIds,
     knownMarketIds |-> orch.knownMarketIds \cup listed]

\* timers: the interval timers that are active; pollingInterval: the field
\* holds the handle of one; starting: start() calls awaiting their initial
\* poll; processed: processMarket calls made per market; verdictFor: the
\* markets processMarket returned a verdict for; failed: the markets it
\* threw for
IdleOrch ==
    orch = [isRunning |-> FALSE,
            pollingInterval |-> FALSE,
            timers |-> 0,
            starting |-> 0,
            starts |-> 0,
            polls |-> <<>>,
            knownMarketIds |-> {},
            processed |-> [m \in 1..MaxNewMarkets |-> 0],
            verdictFor |-> {},
            failed |-> {},
            stopCalled |-> FALSE,
            afterStop |-> {}]

----------------------------------------------------------------------------
(* BlockchainClient *)

NotTracked == -1     \* heartbeats has no entry for the market

\* scanMarkets: every market account, with isResolved read from its status,
\* which finalizeService sets to resolved.
scanMarkets ==
    [m \in Markets |-> [market |-> m, isResolved |-> "finalize" \in chain[m]]]

\* getVoteTally: the governance tally of the source
getVoteTally(m) == [majority |-> "YES", conflictWithAI |-> FALSE]

----------------------------------------------------------------------------
(* SentinelAgent *)

NoConsensusInput ==
    [kind |-> "throw", answer |-> "UNCERTAIN", confidence |-> 0]

\* returned: no handler result to report
Nothing == [op |-> "none", market |-> 0, answer |-> "NONE", retries |-> 0]

MaxCycles == 2     \* runSentinelCycle calls in flight at one time

\* No cycle is running, no layer4Heartbeat call is awaiting results,
\* finalizeService was not called
IdleSentinel ==
    sentinel = [scans |-> [c \in 1..MaxCycles |-> <<>>],
                awaiting |-> [c \in 1..MaxCycles |-> [market |-> 0, lastCheck |-> 0, at |-> 0]],
                finalizeCalls |-> [m \in Markets |-> 0]]

AgentInit ==
    /\ now = 0
    /\ pending = <<>>
    /\ inProgress = {}
    /\ tasks = {}
    /\ workerAwaiting = FALSE
    /\ heartbeats = [m \in Markets |-> NotTracked]
    /\ scan = <<>>
    /\ chain = [m \in Markets |-> {}]
    /\ escalated = {}
    /\ returned = Nothing
    /\ proposedAt = [m \in Markets |-> NotTracked]
    /\ dropped = {}
    /\ hung = {}

\* verdicts: the engine has not run
NoVerdicts ==
    [op |-> "none", responses |-> <<>>, result |-> createError, proposal |-> "none"]

IdleConsensus ==
    /\ replies = <<NoConsensusInput, NoConsensusInput, NoConsensusInput>>
    /\ auditReply = "pass"
    /\ verdicts = NoVerdicts

Init ==
    /\ AgentInit
    /\ vault = AllKeys
    /\ IdleConsensus
    /\ IdleOracle
    /\ IdleApi
    /\ IdleOrch
    /\ IdleSentinel
    /\ IdleValidation
    /\ IdlePipeline

\* The clock advances by one time step.
Tick ==
    /\ now < MaxTicks * TICK_MS
    /\ now' = now + TICK_MS
    /\ returned' = Nothing
    /\ UNCHANGED <<pending, inProgress, tasks, workerAwaiting, heartbeats, scan,
                   chain, escalated, proposedAt, dropped, hung>>
    /\ UNCHANGED <<vault, consensusVars, oracleVars, serviceVars>>

\* runSentinelCycle, up to the scan: the interval fires and the markets are
\* fetched.
CycleScan ==
    /\ scan = <<>>
    /\ scan' = scanMarkets
    /\ returned' = Nothing
    /\ UNCHANGED <<now, pending, inProgress, tasks, workerAwaiting, heartbeats,
                   chain, escalated, proposedAt, dropped, hung>>
    /\ UNCHANGED <<vault, consensusVars, oracleVars, serviceVars>>

\* The escalation condition with "and" in place of "or"
ShouldEscalate_Both(seal, votes) == seal.answer = "UNCERTAIN" /\ votes.conflictWithAI

\* The escalation condition of layer4Heartbeat.
ShouldEscalate(seal, votes) == seal.answer = "UNCERTAIN" \/ votes.conflictWithAI

\* The finalization condition of layer4Heartbeat.
ShouldFinalize(lastCheck) == now - lastCheck > FINALIZE_MS

\* The escalation also submitting emergencyFreeze for the market
reviewAndEscalate_Freezes(m) ==
    /\ escalated' = escalated \cup {m}
    /\ chain' = [chain EXCEPT ![m] = @ \cup {"emergencyFreeze"}]

\* reviewAndEscalate(market, seal, votes): the report is persisted by the
\* logger; no method of the BlockchainClient is called.
reviewAndEscalate(m) ==
    /\ escalated' = escalated \cup {m}
    /\ chain' = chain

\* layer4Heartbeat(market), executeLayer3Seal returning seal.
layer4Heartbeat(m, seal) ==
    LET lastCheck == IF heartbeats[m] = NotTracked THEN 0 ELSE heartbeats[m]
        votes == getVoteTally(m)
    IN  IF now - lastCheck > HEARTBEAT_MS
        THEN /\ returned' = [op |-> "layer4Heartbeat", market |-> m,
                             answer |-> seal.answer, retries |-> 0]
             /\ IF ShouldEscalate(seal, votes)
                THEN /\ reviewAndEscalate(m)
                     /\ heartbeats' = [heartbeats EXCEPT ![m] = NotTracked]
                     /\ proposedAt' = [proposedAt EXCEPT ![m] = NotTracked]
                ELSE IF ShouldFinalize(lastCheck)
                     THEN /\ chain' = [chain EXCEPT ![m] = @ \cup {"finalize"}]
                          /\ heartbeats' = [heartbeats EXCEPT ![m] = NotTracked]
                          /\ proposedAt' = [proposedAt EXCEPT ![m] = NotTracked]
                          /\ escalated' = escalated
                     ELSE /\ heartbeats' = [heartbeats EXCEPT ![m] = now]
                          /\ UNCHANGED <<chain, escalated, proposedAt>>
        ELSE /\ returned' = Nothing
             /\ UNCHANGED <<heartbeats, chain, escalated, proposedAt>>

\* One iteration of the loop of runSentinelCycle over the scan result.
CycleVisit ==
    /\ scan # <<>>
    /\ LET market == Head(scan)
           m == market.market
           isAlreadyTracking == heartbeats[m] # NotTracked
           due == /\ resolutionTime(m) * 1000 <= now
                  /\ ~market.isResolved
                  /\ ~isAlreadyTracking
       IN  /\ pending' = IF due THEN add(m) ELSE pending
           /\ IF isAlreadyTracking
              THEN \E seal \in SealResults : layer4Heartbeat(m, seal)
              ELSE /\ returned' = IF due
                                  THEN [op |-> "add", market |-> m,
                                        answer |-> IF add(m) = pending
                                                   THEN "SKIPPED" ELSE "ADDED",
                                        retries |-> 0]
                                  ELSE Nothing
                   /\ UNCHANGED <<heartbeats, chain, escalated, proposedAt>>
    /\ scan' = Tail(scan)
    /\ UNCHANGED <<now, inProgress, tasks, workerAwaiting, dropped, hung>>
    /\ UNCHANGED <<vault, consensusVars, oracleVars, serviceVars>>

\* runWorkerLoop calls processNext: the synchronous part, up to the task
\* being scheduled.
processNext ==
    /\ ~workerAwaiting
    /\ pending # <<>>
    /\ LET next == getHighestPriority(pending)
       IN  /\ inProgress' = inProgress \cup {next.market}
           /\ pending' = RemoveKey(pending, next.market)
           /\ tasks' = tasks \cup {next}
    /\ workerAwaiting' = TRUE
    /\ returned' = Nothing
    /\ UNCHANGED <<now, heartbeats, scan, chain, escalated, proposedAt, dropped, hung>>
    /\ UNCHANGED <<vault, consensusVars, oracleVars, serviceVars>>

\* An external call awaited by resolveFn (the scraper, a backend of the
\* Forge, the ledger) never settles: the task neither returns nor throws.
TaskHangs ==
    /\ \E next \in tasks :
        /\ next.market \notin hung
        /\ hung' = hung \cup {next.market}
    /\ returned' = Nothing
    /\ UNCHANGED <<now, pending, inProgress, tasks, workerAwaiting, heartbeats,
                   scan, chain, escalated, proposedAt, dropped>>
    /\ UNCHANGED <<vault, consensusVars, oracleVars, serviceVars>>

\* The catch block dropping the entry one failure early
TaskFailed_DropsEarly(next) ==
    /\ inProgress' = inProgress \ {next.market}
    /\ IF next.retries + 1 < RETRY_LIMIT - 1
       THEN /\ pending' = Append(RemoveKey(pending, next.market),
                                 [next EXCEPT !.retries = @ + 1])
            /\ dropped' = dropped
       ELSE /\ pending' = pending
            /\ dropped' = dropped \cup {next.market}

\* The catch block of the task of processNext.
TaskFailed(next) ==
    /\ inProgress' = inProgress \ {next.market}
    /\ IF next.retries + 1 < RETRY_LIMIT
       THEN /\ pending' = Append(RemoveKey(pending, next.market),
                                 [next EXCEPT !.retries = @ + 1])
            /\ dropped' = dropped
       ELSE /\ pending' = pending
            /\ dropped' = dropped \cup {next.market}

\* The task ends because resolveFn threw before a proposal was recorded:
\* the scraper or the propose transaction failed.
TaskThrows ==
    /\ \E next \in tasks :
        /\ next.market \notin hung
        /\ tasks' = tasks \ {next}
        /\ TaskFailed(next)
    /\ workerAwaiting' = FALSE
    /\ returned' = Nothing
    /\ UNCHANGED <<now, heartbeats, scan, chain, escalated, proposedAt, hung>>
    /\ UNCHANGED <<vault, consensusVars, oracleVars, serviceVars>>

\* The outcome layer1Detection proposes for a verdict that is not UNCERTAIN.
ProposedOutcome(aiResult) == IF aiResult.answer = "YES" THEN "Yes" ELSE "No"

\* layer1Detection's decision on the Forge's verdict: the outcome it submits
\* to the ledger ("none": nothing is submitted, no heartbeat is started) and
\* the ResolutionResult it returns.
layer1Detection(aiResult) ==
    IF aiResult.answer # "UNCERTAIN"
    THEN [proposal |-> ProposedOutcome(aiResult),
          finalOutcome |-> aiResult.answer,
          confidenceScore |-> aiResult.confidence]
    ELSE [proposal |-> "none", finalOutcome |-> "INCERTAIN", confidenceScore |-> 0]

\* The task ends with layer1Detection returning, executeLayer1Forge having
\* returned aiResult.
TaskReturns ==
    /\ \E next \in tasks : \E aiResult \in ForgeResults :
        LET m == next.market
            result == layer1Detection(aiResult)
        IN  /\ m \notin hung
            /\ tasks' = tasks \ {next}
            /\ inProgress' = inProgress \ {m}
            /\ returned' = [op |-> "layer1Detection", market |-> m,
                            answer |-> result.finalOutcome,
                            retries |-> next.retries]
            /\ IF result.proposal # "none"
               THEN /\ chain' = [chain EXCEPT ![m] = @ \cup {result.proposal}]
                    /\ heartbeats' = [heartbeats EXCEPT ![m] = now]
                    /\ proposedAt' = [proposedAt EXCEPT ![m] = now]
               ELSE UNCHANGED <<chain, heartbeats, proposedAt>>
    /\ workerAwaiting' = FALSE
    /\ UNCHANGED <<now, pending, scan, escalated, dropped, hung>>
    /\ UNCHANGED <<vault, consensusVars, oracleVars, serviceVars>>

Next ==
    \/ Tick
    \/ CycleScan
    \/ CycleVisit
    \/ processNext
    \/ TaskHangs
    \/ TaskThrows
    \/ TaskReturns

Spec == Init /\ [][Next]_vars

----------------------------------------------------------------------------
(* The MarketQueue on its own: processNext and its catch block over queues *)
(* of markets of any liquidity band.                                       *)

MaxQueue == 2       \* entries in the pending map at the start
MaxAddedAt == 1     \* distinct enqueue times (ms) among them

QueueKeys == 1..MaxQueue

\* Entries as addBatch creates them, for markets of the lowest and of the
\* highest liquidity band
QueueEntries ==
    [market : QueueKeys, priority : {calculatePriority(1), calculatePriority(2)},
     retries : {0}, addedAt : 0..MaxAddedAt]

\* The pending maps addBatch builds: one entry per key, in the order of the
\* calls, so that enqueue times do not decrease along the map.
QueueSamples ==
    {q \in UNION {[1..n -> QueueEntries] : n \in 0..MaxQueue} :
        /\ \A i, j \in DOMAIN q : i # j => q[i].market # q[j].market
        /\ \A i, j \in DOMAIN q : i < j => q[i].addedAt <= q[j].addedAt}

QueueInit ==
    /\ now = MaxAddedAt
    /\ pending \in QueueSamples
    /\ inProgress = {}
    /\ tasks = {}
    /\ workerAwaiting = FALSE
    /\ heartbeats = [m \in Markets |-> NotTracked]
    /\ scan = <<>>
    /\ chain = [m \in Markets |-> {}]
    /\ escalated = {}
    /\ returned = Nothing
    /\ proposedAt = [m \in Markets |-> NotTracked]
    /\ dropped = {}
    /\ hung = {}
    /\ vault = AllKeys
    /\ IdleConsensus
    /\ IdleOracle
    /\ IdleApi
    /\ IdleOrch
    /\ IdleSentinel
    /\ IdleValidation
    /\ IdlePipeline

QueueSpec ==
    QueueInit /\ [][\/ processNext
                    \/ TaskThrows]_vars

----------------------------------------------------------------------------
(* The ConsensusEngine on its own: one run of the Forge (with the decision *)
(* layer1Detection takes on it) or of the Seal over given backend replies. *)

Vaults == {AllKeys, [AllKeys EXCEPT !.openai = FALSE]}

ConsensusInit ==
    /\ AgentInit
    /\ IdleOracle
    /\ IdleApi
    /\ IdleOrch
    /\ IdleSentinel
    /\ IdleValidation
    /\ IdlePipeline
    /\ vault \in Vaults
    /\ replies \in RawReplies \X RawReplies \X RawReplies
    /\ auditReply \in AuditReplies
    /\ verdicts = NoVerdicts

RunForge ==
    /\ verdicts.op = "none"
    /\ LET gemini == askGemini(vault.gemini, replies[1])
           gpt == askGPT(vault.openai, replies[2])
           aiResult == executeLayer1Forge(gemini, gpt, auditLayer15(vault.openai, auditReply))
       IN  verdicts' = [op |-> "forge", responses |-> <<gemini, gpt>>,
                        result |-> aiResult,
                        proposal |-> layer1Detection(aiResult).proposal]
    /\ UNCHANGED <<agentVars, vault, replies, auditReply, oracleVars, serviceVars>>

RunSeal ==
    /\ verdicts.op = "none"
    /\ LET gemini == askGemini(vault.gemini, replies[1])
           gpt == askGPT(vault.openai, replies[2])
           perplexity == askPerplexity(vault.perplexity, replies[3])
       IN  verdicts' = [op |-> "seal", responses |-> <<gemini, gpt, perplexity>>,
                        result |-> executeLayer3Seal(gemini, gpt, perplexity),
                        proposal |-> "none"]
    /\ UNCHANGED <<agentVars, vault, replies, auditReply, oracleVars, serviceVars>>

ConsensusSpec ==
    ConsensusInit /\ [][\/ RunForge
                        \/ RunSeal]_vars

----------------------------------------------------------------------------
(* The oracle's resolver on its own: one resolveMarket call per request. *)

OracleInit ==
    /\ AgentInit
    /\ vault = AllKeys
    /\ IdleConsensus
    /\ request \in Requests
    /\ resolution = NoResolution
    /\ IdleApi
    /\ IdleOrch
    /\ IdleSentinel
    /\ IdleValidation
    /\ IdlePipeline

Resolve ==
    /\ ~resolution.done
    /\ resolution' = resolveMarket(request)
    /\ UNCHANGED <<agentVars, vault, consensusVars, request, serviceVars>>

OracleSpec == OracleInit /\ [][Resolve]_vars

----------------------------------------------------------------------------
(* The oracle's HTTP server on its own: POST /admin/action and             *)
(* POST /resolve/:marketId served one request at a time.                   *)

ApiInit ==
    /\ AgentInit
    /\ vault = AllKeys
    /\ IdleConsensus
    /\ IdleOracle
    /\ IdleApi
    /\ IdleOrch
    /\ IdleSentinel
    /\ IdleValidation
    /\ IdlePipeline

\* app.post('/admin/action')
PostAdminAction ==
    /\ \E adminAddress \in Addresses, marketId \in RequestIds,
          actionType \in AdminActionTypes :
        LET req == [endpoint |-> "admin/action", adminAddress |-> adminAddress,
                    marketId |-> marketId, actionType |-> actionType,
                    forcedResolution |-> "none"]
        IN  IF ~isAdminAddress(adminAddress)
            THEN api' = [api EXCEPT !.request = req, !.response = 403]
            ELSE IF ~getMarketById(marketId)
            THEN api' = [api EXCEPT !.request = req, !.response = 404]
            ELSE IF actionType = "unknown"
            THEN api' = [api EXCEPT !.request = req, !.response = 400]
            ELSE /\ Len(api.adminActions) < MaxAdminActions
                 /\ api' = [api EXCEPT
                        !.status[marketId] = ActionStatus(actionType),
                        !.overridden[marketId] = TRUE,
                        !.adminActions = Append(@, [adminAddress |-> adminAddress,
                                                    actionType |-> actionType,
                                                    marketId |-> marketId]),
                        !.request = req,
                        !.response = 200]
    /\ UNCHANGED <<agentVars, vault, consensusVars, oracleVars, orch, validation, pipeline,
                   sentinel>>

\* app.post('/resolve/:marketId'); threw: resolveMarket or the database
\* raised an error, which the handler answers with 500
PostResolve ==
    /\ \E adminAddress \in Addresses, marketId \in RequestIds,
          forcedResolution \in ForcedValues, threw \in BOOLEAN :
        LET req == [endpoint |-> "resolve", adminAddress |-> adminAddress,
                    marketId |-> marketId, actionType |-> "none",
                    forcedResolution |-> forcedResolution]
        IN  IF forcedDenied(forcedResolution, adminAddress)
            THEN api' = [api EXCEPT !.request = req, !.response = 403]
            ELSE IF ~getMarketById(marketId)
            THEN api' = [api EXCEPT !.request = req, !.response = 404]
            ELSE IF threw
            THEN api' = [api EXCEPT !.request = req, !.response = 500]
            ELSE \E result \in
                    IF forcedResolution # "none"
                    THEN {createForcedResolution([forcedResolution |-> forcedResolution])}
                    ELSE AutomaticResults :
                 api' = [api EXCEPT
                    !.resolutions[marketId] =
                        [outcome |-> result.outcome, action |-> result.action,
                         forced |-> forcedResolution # "none",
                         adminAddress |-> adminAddress],
                    !.status[marketId] = ResolvedStatus(result.outcome),
                    !.request = req,
                    !.response = 200]
    /\ UNCHANGED <<agentVars, vault, consensusVars, oracleVars, orch, validation, pipeline,
                   sentinel>>

\* app.post('/webhook/market-created') for an id the markets table holds:
\* INSERT OR REPLACE writes the row anew and validateMarket is started in
\* the background. refused: the signature is wrong and NODE_ENV is production
WebhookMarketCreated ==
    /\ \E marketId \in DbMarkets, refused \in BOOLEAN :
        LET req == [endpoint |-> "webhook/market-created", adminAddress |-> "none",
                    marketId |-> marketId, actionType |-> "none",
                    forcedResolution |-> "none"]
        IN  IF refused
            THEN api' = [api EXCEPT !.request = req, !.response = 401]
            ELSE /\ api.validating[marketId] < MaxValidating
                 /\ api' = [api EXCEPT
                        !.status[marketId] = "pending_validation",
                        !.validating[marketId] = @ + 1,
                        !.overridden[marketId] = FALSE,
                        !.request = req,
                        !.response = 202]
    /\ UNCHANGED <<agentVars, vault, consensusVars, oracleVars, orch, validation, pipeline,
                   sentinel>>

\* The then / catch callbacks of the validation the webhook started: the
\* promise settles with a result carrying action, or rejects ("throw")
ValidationCompletes ==
    /\ \E marketId \in DbMarkets,
          action \in {"approve_market", "reject_and_burn", "flag_for_review", "throw"} :
        /\ api.validating[marketId] > 0
        /\ api' = [api EXCEPT
                !.status[marketId] = IF action = "approve_market" THEN "active"
                                     ELSE IF action = "reject_and_burn" THEN "rejected"
                                     ELSE "flagged",
                !.validating[marketId] = @ - 1,
                !.request = [endpoint |-> "validation_completed", adminAddress |-> "none",
                             marketId |-> marketId, actionType |-> action,
                             forcedResolution |-> "none"],
                !.response = 0]
    /\ UNCHANGED <<agentVars, vault, consensusVars, oracleVars, orch, validation, pipeline,
                   sentinel>>

\* app.post('/webhook/market-expired')
WebhookMarketExpired ==
    /\ \E marketId \in RequestIds :
        LET req == [endpoint |-> "webhook/market-expired", adminAddress |-> "none",
                    marketId |-> marketId, actionType |-> "none",
                    forcedResolution |-> "none"]
        IN  IF ~getMarketById(marketId)
            THEN api' = [api EXCEPT !.request = req, !.response = 404]
            ELSE api' = [api EXCEPT !.status[marketId] = "expired",
                                    !.overridden[marketId] = TRUE,
                                    !.request = req,
                                    !.response = 200]
    /\ UNCHANGED <<agentVars, vault, consensusVars, oracleVars, orch, validation, pipeline,
                   sentinel>>

ApiSpec ==
    ApiInit /\ [][\/ PostAdminAction
                  \/ PostResolve]_vars

\* The same server with the webhooks of the market platform and the
\* validation they start in the background
WebhookSpec ==
    ApiInit /\ [][\/ PostAdminAction
                  \/ PostResolve
                  \/ WebhookMarketCreated
                  \/ ValidationCompletes
                  \/ WebhookMarketExpired]_vars

----------------------------------------------------------------------------
(* The oracle's validator on its own: one validateMarket call per request. *)

ValidatorInit ==
    /\ AgentInit
    /\ vault = AllKeys
    /\ IdleConsensus
    /\ IdleOracle
    /\ IdleApi
    /\ IdleOrch
    /\ IdleSentinel
    /\ IdlePipeline
    /\ validation \in [request : ValidationRequests, clock : {0}, result : {NoValidation}]

Validate ==
    /\ ~validation.result.done
    /\ validation' = [validation EXCEPT
            !.result = validateMarket(validation.request, validation.clock)]
    /\ UNCHANGED <<agentVars, vault, consensusVars, oracleVars, api, orch, pipeline,
                   sentinel>>

ValidatorSpec == ValidatorInit /\ [][Validate]_vars

----------------------------------------------------------------------------
(* The rule checks of the validator on their own: checkResolvability is    *)
(* called for the same request again and again while time passes.          *)

RulesInit ==
    /\ AgentInit
    /\ vault = AllKeys
    /\ IdleConsensus
    /\ IdleOracle
    /\ IdleApi
    /\ IdleOrch
    /\ IdleSentinel
    /\ IdlePipeline
    /\ validation \in
            [request : {[NoValidationRequest EXCEPT !.title = t, !.expiresAt = e] :
                            t \in Titles, e \in ExpiryTimes},
             clock : {0}, result : {NoValidation}]

\* Date.now() moves on by an hour
ClockAdvances ==
    /\ validation.clock < MaxClock
    /\ validation' = [validation EXCEPT !.clock = @ + 1]
    /\ UNCHANGED <<agentVars, vault, consensusVars, oracleVars, api, orch, pipeline,
                   sentinel>>

CheckRules ==
    /\ validation' = [validation EXCEPT
            !.result.done = TRUE,
            !.result.resolvabilityCheck =
                checkResolvability(validation.request.title,
                                   validation.request.expiresAt, validation.clock)]
    /\ UNCHANGED <<agentVars, vault, consensusVars, oracleVars, api, orch, pipeline,
                   sentinel>>

RulesSpec ==
    RulesInit /\ [][\/ ClockAdvances
                    \/ CheckRules]_vars

----------------------------------------------------------------------------
(* The heartbeat of the agent with sentinel cycles that overlap: the       *)
(* interval starts runSentinelCycle every CHECK_INTERVAL_MS whether or not *)
(* the cycle before has returned, and layer4Heartbeat awaits the           *)
(* governance tally and the seal between reading the heartbeat record and  *)
(* acting on it. Every market was proposed at time 0.                      *)

HeartbeatInit ==
    /\ now = 0
    /\ pending = <<>>
    /\ inProgress = {}
    /\ tasks = {}
    /\ workerAwaiting = FALSE
    /\ heartbeats = [m \in Markets |-> 0]
    /\ scan = <<>>
    /\ chain = [m \in Markets |-> {"Yes"}]
    /\ escalated = {}
    /\ returned = Nothing
    /\ proposedAt = [m \in Markets |-> 0]
    /\ dropped = {}
    /\ hung = {}
    /\ vault = AllKeys
    /\ IdleConsensus
    /\ IdleOracle
    /\ IdleApi
    /\ IdleOrch
    /\ IdleSentinel
    /\ IdleValidation
    /\ IdlePipeline

\* The interval (or start) calls runSentinelCycle while fewer than MaxCycles
\* calls are running: call c receives the result of scanMarkets.
SentinelScan ==
    /\ \E c \in 1..MaxCycles :
        /\ sentinel.awaiting[c].market = 0
        /\ sentinel.scans[c] = <<>>
        /\ sentinel' = [sentinel EXCEPT !.scans[c] = scanMarkets]
    /\ returned' = Nothing
    /\ UNCHANGED <<now, pending, inProgress, tasks, workerAwaiting, heartbeats, scan,
                   chain, escalated, proposedAt, dropped, hung>>
    /\ UNCHANGED <<vault, consensusVars, oracleVars, api, orch, validation, pipeline>>

\* One iteration of the loop of cycle c over its scan result, up to the
\* awaits of layer4Heartbeat: the market is enqueued when it is due, and for
\* a tracked market whose check is due layer4Heartbeat reads lastCheck and
\* the time and awaits getVoteTally and executeLayer3Seal.
SentinelVisit ==
    /\ \E c \in 1..MaxCycles :
        /\ sentinel.awaiting[c].market = 0
        /\ sentinel.scans[c] # <<>>
        /\ LET market == Head(sentinel.scans[c])
               m == market.market
               isAlreadyTracking == heartbeats[m] # NotTracked
               due == /\ resolutionTime(m) * 1000 <= now
                      /\ ~market.isResolved
                      /\ ~isAlreadyTracking
           IN  /\ pending' = IF due THEN add(m) ELSE pending
               /\ sentinel' = [sentinel EXCEPT
                       !.scans[c] = Tail(@),
                       !.awaiting[c] =
                           IF isAlreadyTracking /\ now - heartbeats[m] > HEARTBEAT_MS
                           THEN [market |-> m, lastCheck |-> heartbeats[m], at |-> now]
                           ELSE @]
    /\ returned' = Nothing
    /\ UNCHANGED <<now, inProgress, tasks, workerAwaiting, heartbeats, scan,
                   chain, escalated, proposedAt, dropped, hung>>
    /\ UNCHANGED <<vault, consensusVars, oracleVars, api, orch, validation, pipeline>>

\* The awaited results arrive in cycle c: the rest of layer4Heartbeat.
HeartbeatResumes ==
    /\ \E c \in 1..MaxCycles, seal \in SealResults :
        LET call == sentinel.awaiting[c]
            m == call.market
        IN  /\ m # 0
            /\ returned' = [op |-> "layer4Heartbeat", market |-> m,
                            answer |-> seal.answer, retries |-> 0]
            /\ IF ShouldEscalate(seal, getVoteTally(m))
               THEN /\ reviewAndEscalate(m)
                    /\ heartbeats' = [heartbeats EXCEPT ![m] = NotTracked]
                    /\ proposedAt' = [proposedAt EXCEPT ![m] = NotTracked]
                    /\ sentinel' = [sentinel EXCEPT
                            !.awaiting[c] = [market |-> 0, lastCheck |-> 0, at |-> 0]]
               ELSE IF call.at - call.lastCheck > FINALIZE_MS
                    THEN /\ chain' = [chain EXCEPT ![m] = @ \cup {"finalize"}]
                         /\ heartbeats' = [heartbeats EXCEPT ![m] = NotTracked]
                         /\ proposedAt' = [proposedAt EXCEPT ![m] = NotTracked]
                         /\ escalated' = escalated
                         /\ sentinel' = [sentinel EXCEPT
                                !.awaiting[c] = [market |-> 0, lastCheck |-> 0, at |-> 0],
                                !.finalizeCalls[m] = @ + 1]
                    ELSE /\ heartbeats' = [heartbeats EXCEPT ![m] = call.at]
                         /\ sentinel' = [sentinel EXCEPT
                                !.awaiting[c] = [market |-> 0, lastCheck |-> 0, at |-> 0]]
                         /\ UNCHANGED <<chain, escalated, proposedAt>>
    /\ UNCHANGED <<now, pending, inProgress, tasks, workerAwaiting, scan, dropped, hung>>
    /\ UNCHANGED <<vault, consensusVars, oracleVars, api, orch, validation, pipeline>>

\* A call layer4Heartbeat awaits after the seal rejects in cycle c: persistLog
\* in reviewAndEscalate, or the finalizeService transaction after the record
\* was set to the time read. The exception leaves the loop of
\* runSentinelCycle for the catch block that encloses it.
HeartbeatThrows ==
    /\ \E c \in 1..MaxCycles, seal \in SealResults :
        LET call == sentinel.awaiting[c]
            m == call.market
        IN  /\ m # 0
            /\ returned' = [op |-> "Sentinel Cycle Error", market |-> m,
                            answer |-> seal.answer, retries |-> 0]
            /\ IF ShouldEscalate(seal, getVoteTally(m))
               THEN heartbeats' = heartbeats
               ELSE /\ call.at - call.lastCheck > FINALIZE_MS
                    /\ heartbeats' = [heartbeats EXCEPT ![m] = call.at]
            /\ sentinel' = [sentinel EXCEPT
                    !.awaiting[c] = [market |-> 0, lastCheck |-> 0, at |-> 0],
                    !.scans[c] = <<>>]
    /\ UNCHANGED <<now, pending, inProgress, tasks, workerAwaiting, scan, chain,
                   escalated, proposedAt, dropped, hung>>
    /\ UNCHANGED <<vault, consensusVars, oracleVars, api, orch, validation, pipeline>>

HeartbeatSpec ==
    HeartbeatInit /\ [][\/ Tick
                        \/ SentinelScan
                        \/ SentinelVisit
                        \/ HeartbeatResumes
                        \/ HeartbeatThrows]_vars

----------------------------------------------------------------------------
(* processMarket on its own: one call per market. *)

PipelineInit ==
    /\ AgentInit
    /\ vault = AllKeys
    /\ IdleConsensus
    /\ IdleOracle
    /\ IdleApi
    /\ IdleOrch
    /\ IdleSentinel
    /\ IdleValidation
    /\ pipeline \in [market : MarketInputs, verdict : {NoVerdict}]

ProcessMarket ==
    /\ ~pipeline.verdict.done
    /\ pipeline' = [pipeline EXCEPT !.verdict = processMarket(pipeline.market)]
    /\ UNCHANGED <<agentVars, vault, consensusVars, oracleVars, api, orch, validation,
                   sentinel>>

PipelineSpec == PipelineInit /\ [][ProcessMarket]_vars

----------------------------------------------------------------------------
(* The CerberusOrchestrator on its own: start() and stop() calls, the      *)
(* polls the timers start and the markets each poll processes.            *)

OrchInit ==
    /\ AgentInit
    /\ vault = AllKeys
    /\ IdleConsensus
    /\ IdleOracle
    /\ IdleApi
    /\ IdleOrch
    /\ IdleSentinel
    /\ IdleValidation
    /\ IdlePipeline

\* What happened after stop() was called and before the next start()
Noted(event) == IF orch.stopCalled THEN orch.afterStop \cup {event} ELSE orch.afterStop

\* start(), up to its await of the initial pollForNewMarkets()
OrchStart ==
    /\ ~orch.isRunning
    /\ orch.starts < MaxStarts
    /\ orch' = [orch EXCEPT !.isRunning = TRUE,
                             !.starting = @ + 1,
                             !.starts = @ + 1,
                             !.polls = Append(@, NewPoll(TRUE)),
                             !.stopCalled = FALSE,
                             !.afterStop = {}]
    /\ UNCHANGED <<agentVars, vault, consensusVars, oracleVars, api, validation, pipeline,
                   sentinel>>

\* A start() call resumes after its initial poll has returned: setInterval
\* creates a timer and the handle is stored in pollingInterval
StartResumes ==
    /\ orch.starting > Cardinality({i \in DOMAIN orch.polls : orch.polls[i].initial})
    /\ orch' = [orch EXCEPT !.starting = @ - 1,
                             !.pollingInterval = TRUE,
                             !.timers = @ + 1]
    /\ UNCHANGED <<agentVars, vault, consensusVars, oracleVars, api, validation, pipeline,
                   sentinel>>

\* stop(): the timer whose handle pollingInterval holds is cleared
OrchStop ==
    /\ orch.isRunning \/ orch.pollingInterval
    /\ orch' = [orch EXCEPT !.timers = IF orch.pollingInterval THEN @ - 1 ELSE @,
                             !.pollingInterval = FALSE,
                             !.isRunning = FALSE,
                             !.stopCalled = TRUE,
                             !.afterStop = {}]
    /\ UNCHANGED <<agentVars, vault, consensusVars, oracleVars, api, validation, pipeline,
                   sentinel>>

\* An active interval timer calls pollForNewMarkets()
IntervalFires ==
    /\ orch.timers > 0
    /\ Len(orch.polls) < MaxPolls
    /\ orch' = [orch EXCEPT !.polls = Append(@, NewPoll(FALSE)),
                             !.afterStop = Noted("poll")]
    /\ UNCHANGED <<agentVars, vault, consensusVars, oracleVars, api, validation, pipeline,
                   sentinel>>

\* fetchNewMarkets() returns to a poll, the platform listing the markets
\* listed: without new markets the poll returns, else its loop calls
\* processMarket for the first of them
PollFetched ==
    /\ \E i \in DOMAIN orch.polls : \E listed \in SUBSET (1..MaxNewMarkets) :
        LET fetched == fetchNewMarkets(listed)
            newMarkets == fetched.newMarkets
            market == CHOOSE m \in newMarkets : \A k \in newMarkets : m <= k
        IN  /\ ~orch.polls[i].busy
            /\ IF newMarkets = {}
               THEN orch' = [orch EXCEPT
                        !.polls = RemoveAt(@, i),
                        !.knownMarketIds = fetched.knownMarketIds]
               ELSE orch' = [orch EXCEPT
                        !.polls[i] = [@ EXCEPT !.busy = TRUE, !.current = market,
                                               !.batch = newMarkets \ {market}],
                        !.knownMarketIds = fetched.knownMarketIds,
                        !.processed[market] = @ + 1,
                        !.afterStop = Noted("process")]
    /\ UNCHANGED <<agentVars, vault, consensusVars, oracleVars, api, validation, pipeline,
                   sentinel>>

\* processMarket settles in the loop of a poll. threw: it rejects, and the
\* catch block around the loop ends the poll; else it returned a verdict and
\* the loop calls processMarket for the next market or ends
MarketProcessed ==
    /\ \E i \in DOMAIN orch.polls : \E threw \in BOOLEAN :
        LET poll == orch.polls[i]
            market == CHOOSE m \in poll.batch : \A k \in poll.batch : m <= k
        IN  /\ poll.busy
            /\ IF threw
               THEN orch' = [orch EXCEPT !.polls = RemoveAt(@, i),
                                         !.failed = @ \cup {poll.current}]
               ELSE IF poll.batch = {}
               THEN orch' = [orch EXCEPT !.polls = RemoveAt(@, i),
                                         !.verdictFor = @ \cup {poll.current}]
               ELSE orch' = [orch EXCEPT
                        !.polls[i] = [@ EXCEPT !.current = market,
                                               !.batch = @ \ {market}],
                        !.verdictFor = @ \cup {poll.current},
                        !.processed[market] = @ + 1,
                        !.afterStop = Noted("process")]
    /\ UNCHANGED <<agentVars, vault, consensusVars, oracleVars, api, validation, pipeline,
                   sentinel>>

OrchSpec ==
    OrchInit /\ [][\/ OrchStart
                   \/ StartResumes
                   \/ OrchStop
                   \/ IntervalFires
                   \/ PollFetched
                   \/ MarketProcessed]_vars

\* Every awaited call settles: fetchNewMarkets returns (a failed request is
\* answered by the catch block of fetchAllMarkets), processMarket returns or
\* rejects, start() resumes after its initial poll; an active timer keeps
\* calling pollForNewMarkets
OrchLiveSpec ==
    /\ OrchSpec
    /\ WF_vars(PollFetched) /\ WF_vars(MarketProcessed)
    /\ WF_vars(StartResumes) /\ WF_vars(IntervalFires)

----------------------------------------------------------------------------
(* Properties of the sentinel agent *)

Tracked(m) == heartbeats[m] # NotTracked

Running(m) == Cardinality({t \in tasks : t.market = m})

Queued(m) == IF m \in PendingKeys THEN 1 ELSE 0

\* C1: a proposed market whose heartbeat checks all found the seal intact and
\* no governance conflict is finalized, and its heartbeat record deleted, by
\* the check that finds more than the finalization window elapsed since the
\* proposal: no record survives a stable check made that late.
C1_FinalizedAfterWindow ==
    \A m \in Markets :
        Tracked(m) => heartbeats[m] - proposedAt[m] <= FINALIZE_MS

\* C2: escalation is terminal: an escalated market is never again enqueued,
\* taken into processing or tracked as proposed by the agent.
C2_EscalationTerminal ==
    \A m \in escalated :
        m \notin PendingKeys /\ m \notin inProgress /\ ~Tracked(m)

\* C3: an entry dropped at the retry limit stays in a collection of the queue
\* that getStats reports; it does not vanish from all of them.
C3_DroppedStaysQueryable ==
    \A m \in dropped : m \in PendingKeys \/ m \in inProgress

C30_FinalizeAtMostOnce ==
    \A m \in Markets : sentinel.finalizeCalls[m] <= 1

\* C31: a market is finalized only by a heartbeat check whose seal returned
\* the outcome that was proposed for it: the step that submits finalize for a
\* market follows a seal of YES for a proposal of Yes, or a seal of NO for a
\* proposal of No; a unanimous seal for the other outcome finalizes nothing.
C31_FinalizedOnlyOnAgreeingSeal ==
    [][\A m \in Markets :
        ("finalize" \in chain'[m] /\ "finalize" \notin chain[m]) =>
            /\ returned'.op = "layer4Heartbeat"
            /\ returned'.market = m
            /\ \/ returned'.answer = "YES" /\ "Yes" \in chain[m]
               \/ returned'.answer = "NO" /\ "No" \in chain[m]]_vars

\* C32: a market the agent has finalized is not enqueued again, also when a
\* cycle that scanned the markets before the finalization is still iterating
\* over its scan result.
C32_FinalizedNeverEnqueued ==
    \A m \in Markets : "finalize" \in chain[m] => m \notin PendingKeys

\* C36: an error raised by the heartbeat check of one market leaves the rest
\* of the cycle's scan result to be visited: the step in which the check of
\* cycle c fails keeps the markets cycle c has not reached yet.
C36_ErrorKeepsRestOfScan ==
    [][\A c \in 1..MaxCycles :
        (returned'.op = "Sentinel Cycle Error"
            /\ sentinel.awaiting[c].market # 0 /\ sentinel'.awaiting[c].market = 0) =>
                sentinel'.scans[c] = sentinel.scans[c]]_vars

\* C5: at most one in-flight processing per market: a market has at most one
\* running worker invocation, is marked in progress while it runs, and has no
\* second entry waiting in the queue at the same time.
C5_AtMostOneInFlight ==
    \A m \in Markets :
        /\ Running(m) + Queued(m) <= 1
        /\ Running(m) = 1 => m \in inProgress

C5_Witness ==
    /\ returned.op = "add"
    /\ returned.answer = "SKIPPED"
    /\ Running(returned.market) = 1

\* C7: a proposal is submitted and a heartbeat record created only when the
\* Layer-1 consensus returned YES or NO.
C7_ProposalOnlyOnYesNo ==
    (returned.op = "layer1Detection" /\ Tracked(returned.market))
        => returned.answer \in {"YES", "NO"}

\* C8: a market dropped at the retry limit is out of automatic retry: no
\* later cycle puts it back into the queue.
C8_NoRetryAfterDrop ==
    \A m \in dropped : m \notin PendingKeys /\ m \notin inProgress

\* C21: each dequeue takes a pending entry of maximum priority and, among the
\* pending entries of that priority, one with the earliest enqueue time, also
\* when a failed entry has been put back into the queue.
C21_HighestPriorityFifo ==
    [][\A t \in tasks' \ tasks :
        \A i \in DOMAIN pending :
            /\ pending[i].priority <= t.priority
            /\ pending[i].priority = t.priority => t.addedAt <= pending[i].addedAt]_vars

C21_Witness ==
    \E t \in tasks :
        /\ t.retries = 1
        /\ \E i \in DOMAIN pending :
            /\ pending[i].priority = t.priority
            /\ pending[i].addedAt > t.addedAt

\* C19: enqueue is idempotent: adding a market that is already pending or in
\* flight changes nothing: no second entry appears, and the existing entry
\* keeps its priority, retry count and enqueue time.
C19_EnqueueIdempotent ==
    [][\A m \in Markets :
        (/\ returned'.op = "add"
         /\ returned'.market = m
         /\ (m \in PendingKeys \/ m \in inProgress))
            => /\ pending' = pending
               /\ inProgress' = inProgress
               /\ tasks' = tasks]_vars

C19_Witness ==
    /\ returned.op = "add"
    /\ returned.answer = "SKIPPED"
    /\ \E i \in DOMAIN pending :
        /\ pending[i].market = returned.market
        /\ pending[i].retries = 1
        /\ pending[i].addedAt < now

\* C20: with retry limit 3, a market whose worker throws on the first two
\* attempts and succeeds on the third completes normally: after each of the
\* two failures its entry is back in the queue with the retry count raised by
\* one (same priority and enqueue time), and the attempt that returns, the
\* third one with retry count 2 included, leaves it neither pending nor in
\* flight.
C20_SucceedsOnThirdAttempt ==
    [][\A t \in tasks :
        t \notin tasks' =>
            /\ t.market \notin inProgress'
            /\ IF returned'.op = "layer1Detection"
               THEN /\ returned'.retries = t.retries
                    /\ \A i \in DOMAIN pending' : pending'[i].market # t.market
               ELSE t.retries < 2 =>
                        \E i \in DOMAIN pending' :
                            pending'[i] = [t EXCEPT !.retries = t.retries + 1]]_vars

C20_Witness ==
    /\ returned.op = "layer1Detection"
    /\ returned.retries = 2
    /\ returned.market \notin PendingKeys
    /\ returned.market \notin inProgress
    /\ returned.market \notin dropped

\* C14: a worker call that never returns for one market does not keep the
\* other pending markets from being dequeued: while entries are pending, the
\* worker loop can take the next one although a call hangs.
C14_HungCallDoesNotStall ==
    (hung # {} /\ pending # <<>>) => ENABLED processNext

----------------------------------------------------------------------------
(* Properties of the ConsensusEngine *)

\* Some backend's answer differs from another's.
Dissent(responses) ==
    \E i, j \in DOMAIN responses : responses[i].answer # responses[j].answer

\* C6: in seal mode, whenever one backend's answer differs from the others
\* the result is UNCERTAIN with confidence 0, whichever backend dissents.
C6_SealDissentUncertain ==
    (verdicts.op = "seal" /\ Dissent(verdicts.responses))
        => verdicts.result = [answer |-> "UNCERTAIN", confidence |-> 0]

C6_Witness ==
    /\ verdicts.op = "seal"
    /\ verdicts.responses[1].answer = "YES"
    /\ verdicts.responses[2].answer = "YES"
    /\ verdicts.responses[3].answer = "NO"
    /\ verdicts.result.answer = "UNCERTAIN"

\* A reply that parses into a verdict: an answer of the enum with a numeric
\* confidence.
ValidVerdict(raw) ==
    raw.kind = "json" /\ raw.answer \in Answers /\ raw.confidence # NaN

\* C9: a reply that is not a valid verdict is treated as UNCERTAIN with
\* confidence 0 and so never counts as agreement towards a proposal: when the
\* Forge's verdict leads to a proposal, both replies were valid verdicts.
C9_InvalidReplyNeverAgrees ==
    (verdicts.op = "forge" /\ verdicts.proposal # "none")
        => (ValidVerdict(replies[1]) /\ ValidVerdict(replies[2]))

\* The primary consensus is strong: both backends give the same answer, which
\* is not UNCERTAIN, with an average confidence of at least the threshold.
StrongPrimary(responses) ==
    /\ responses[1].answer = responses[2].answer
    /\ responses[1].answer # "UNCERTAIN"
    /\ Geq(avgConf(responses[1].confidence, responses[2].confidence), LAYER1_THRESHOLD)

\* C39: the Forge returns YES or NO only if Gemini and GPT gave the same
\* answer, each with a confidence above 0.9; in every other case it returns
\* UNCERTAIN.
C39_ForgeNeedsBothConfident ==
    verdicts.op = "forge" =>
        LET gemini == verdicts.responses[1]
            gpt == verdicts.responses[2]
            bothConfident ==
                /\ gemini.answer = gpt.answer
                /\ gemini.answer \in {"YES", "NO"}
                /\ gemini.confidence > LAYER1_THRESHOLD
                /\ gpt.confidence > LAYER1_THRESHOLD
        IN  /\ verdicts.result.answer \in {"YES", "NO"} => bothConfident
            /\ ~bothConfident => verdicts.result.answer = "UNCERTAIN"

\* C17: when the primary consensus is strong but the audit fails (the auditor
\* rejects the verdict or the audit call throws), the Forge returns UNCERTAIN
\* with the audit's reason, never the primary verdict.
C17_AuditFailureDowngrades ==
    (/\ verdicts.op = "forge"
     /\ StrongPrimary(verdicts.responses)
     /\ vault.openai
     /\ auditReply # "pass")
        => /\ verdicts.result.answer = "UNCERTAIN"
           /\ verdicts.result.confidence = 0
           /\ verdicts.result.reasoning =
                <<"Layer 1.5 Audit Failed",
                  IF auditReply = "fail" THEN StatedReason ELSE "Audit Process Error">>
           /\ verdicts.proposal = "none"

C17_Witness ==
    /\ verdicts.op = "forge"
    /\ verdicts.responses = <<[answer |-> "YES", confidence |-> 100],
                              [answer |-> "YES", confidence |-> 100]>>
    /\ auditReply = "fail"
    /\ verdicts.result.answer = "UNCERTAIN"
    /\ verdicts.result.reasoning = <<"Layer 1.5 Audit Failed", StatedReason>>

\* The replies of the two primary backends agree on YES or on NO, both with
\* full confidence.
ConfidentReplies ==
    /\ replies[1] = replies[2]
    /\ ValidVerdict(replies[1])
    /\ replies[1].answer \in {"YES", "NO"}
    /\ replies[1].confidence = 100

\* C18: without an audit-capable backend the audit is a pass-through and no
\* hard dependency: when the primary backends' replies agree on YES or NO
\* with full confidence, the Forge returns that answer and it is proposed.
C18_NoAuditorStillProposes ==
    (verdicts.op = "forge" /\ ~vault.openai /\ ConfidentReplies)
        => /\ verdicts.result.answer = replies[1].answer
           /\ verdicts.proposal # "none"

----------------------------------------------------------------------------
(* Properties of the oracle's resolver *)

\* agreementLevel (a percentage) recomputed from the votes stored in a
\* consensus result; 0 for an empty list, as getLLMConsensus computes it.
AgreementMatchesVotes(c) ==
    LET n == Len(c.votes)
        k == CountVotes(c.votes, c.finalVerdict)
    IN  IF n = 0 THEN c.agreementLevel = 0
        ELSE c.agreementLevel * n = 100 * k

\* C11: a resolution that was not forced pays the YES or the NO holders only
\* if the agreement level is at least the agreement threshold, the average
\* confidence of the votes is at least the confidence threshold and the
\* evidence strength is at least 50.
C11_PayOnlyAboveThresholds ==
    (/\ resolution.done
     /\ request.forcedResolution = "none"
     /\ resolution.action \in {"pay_yes_holders", "pay_no_holders"})
        => /\ resolution.llmConsensus.agreementLevel >= llmAgreementThreshold
           /\ Geq(AvgConfidence(resolution.llmConsensus.votes),
                  resolutionConfidenceThreshold)
           /\ calculateEvidenceStrength(request.evidence) >= 50

\* The consensus round ran for the request: the resolution was not forced
\* and some evidence was collected.
ConsensusRan ==
    /\ resolution.done
    /\ request.forcedResolution = "none"
    /\ \/ request.evidence.sourceUrlContent # "null"
       \/ request.evidence.newsArticles > 0
       \/ request.evidence.officialStatements > 0

\* The provider failed: its call threw or it has no credentials.
Failed(reply) == reply.kind \in {"throw", "nokey"}

HasFailureVote(votes, provider) ==
    \E i \in DOMAIN votes :
        votes[i] = [provider |-> provider, vote |-> "unresolvable", confidence |-> 0]

\* C16: the failure of a single backend does not abort the consensus round:
\* the round returns a result in which the failing backend is counted with
\* an unresolvable vote of confidence 0.
C16_FailureDegradesToVote ==
    ConsensusRan =>
        /\ (Failed(request.anthropic) /\ request.openai.kind = "json") =>
                HasFailureVote(resolution.llmConsensus.votes, "anthropic")
        /\ (Failed(request.openai) /\ request.anthropic.kind = "json") =>
                HasFailureVote(resolution.llmConsensus.votes, "openai")

\* C28: when the votes of a consensus round are tied, no answer among yes,
\* no and unresolvable having strictly more votes than each of the other
\* two, the round's finalVerdict is unresolvable.
C28_TieIsUnresolvable ==
    ConsensusRan =>
        LET votes == resolution.llmConsensus.votes
            answers == {"yes", "no", "unresolvable"}
        IN  (\A a \in answers : \E b \in answers \ {a} :
                CountVotes(votes, b) >= CountVotes(votes, a))
                    => resolution.llmConsensus.finalVerdict = "unresolvable"

C28_Witness ==
    /\ ConsensusRan
    /\ Len(resolution.llmConsensus.votes) = 2
    /\ CountVotes(resolution.llmConsensus.votes, "yes") = 1
    /\ CountVotes(resolution.llmConsensus.votes, "no") = 1
    /\ resolution.llmConsensus.finalVerdict = "unresolvable"

\* C10: in every ResolutionResult the stored agreementLevel is the share of
\* the stored votes that equal finalVerdict.
C10_AgreementRecomputable ==
    resolution.done => AgreementMatchesVotes(resolution.llmConsensus)

----------------------------------------------------------------------------
(* Properties of the oracle's HTTP server *)

\* C12: a POST /admin/action request whose adminAddress is not in the
\* authorized admin set is answered with 403 and changes neither a market's
\* status nor the admin-action log.
C12_UnauthorizedActionRejected ==
    [][(/\ api'.request.endpoint = "admin/action"
        /\ api'.request.adminAddress \notin adminAddresses)
          => /\ api'.response = 403
             /\ api'.status = api.status
             /\ api'.adminActions = api.adminActions]_vars

C12_Witness ==
    /\ api.request.endpoint = "admin/action"
    /\ api.request.adminAddress = "mallory"
    /\ api.request.marketId = "m1"
    /\ api.request.actionType = "manual_resolve_yes"
    /\ api.response = 403
    /\ api.status["m1"] = "flagged"
    /\ Len(api.adminActions) = 1

\* C13: a resolution with a caller-supplied outcome is stored through
\* POST /resolve/:marketId only for a request whose adminAddress is in the
\* authorized admin set.
C13_ForcedOnlyByAdmin ==
    \A id \in DbMarkets :
        api.resolutions[id].forced => api.resolutions[id].adminAddress \in adminAddresses

C13_Witness ==
    /\ api.request.endpoint = "resolve"
    /\ api.request.forcedResolution = "yes"
    /\ api.response = 200
    /\ api.resolutions["m1"] =
            [outcome |-> "yes", action |-> "pay_yes_holders", forced |-> TRUE,
             adminAddress |-> "admin"]
    /\ api.status["m1"] = "resolved_yes"

\* C33: an automatic (not forced) resolution leaves the market in status
\* resolved_yes only with a result whose action is pay_yes_holders, and in
\* resolved_no only with one whose action is pay_no_holders: a result that
\* asks for manual resolution does not mark the market as resolved.
C33_ResolvedOnlyWhenPaying ==
    (api.request.endpoint = "resolve" /\ api.response = 200
        /\ api.request.forcedResolution = "none") =>
            LET id == api.request.marketId
            IN  /\ api.status[id] = "resolved_yes" =>
                        api.resolutions[id].action = "pay_yes_holders"
                /\ api.status[id] = "resolved_no" =>
                        api.resolutions[id].action = "pay_no_holders"

\* C34: the status written when the background validation of a market
\* completes does not replace a status that an admin action or an expiry
\* notification set for the market after the webhook registered it.
C34_ValidationKeepsLaterStatus ==
    [][\A id \in DbMarkets :
        (api'.request.endpoint = "validation_completed" /\ api'.request.marketId = id
            /\ api'.validating[id] < api.validating[id] /\ api.overridden[id]) =>
                api'.status[id] = api.status[id]]_vars

\* C35: no market-created or market-expired notification changes the status
\* of a market that is in status resolved_yes or resolved_no.
C35_WebhooksKeepResolved ==
    [][\A id \in DbMarkets :
        (api.status[id] \in {"resolved_yes", "resolved_no"}
            /\ api'.request.endpoint \in {"webhook/market-created", "webhook/market-expired"}
            /\ api'.request.marketId = id /\ api'.response \in {200, 202}) =>
                api'.status[id] = api.status[id]]_vars

\* C22: storing a resolution for a market never overwrites or removes a
\* resolution that was stored earlier for that market: a row of the
\* resolutions table, once written, stays as it was written.
C22_ResolutionsAppendOnly ==
    [][\A id \in DbMarkets :
        api.resolutions[id] # NoRow => api'.resolutions[id] = api.resolutions[id]]_vars

----------------------------------------------------------------------------
(* Properties of the oracle's validator *)

\* The source domain of the request is on the blacklist: its hostname, a
\* leading www. apart, is a blacklisted domain or a subdomain of one.
SourceBlacklisted(req) ==
    /\ req.sourceUrl.wellFormed
    /\ \E d \in BLACKLISTED_DOMAINS : \E k \in 0..2 :
        /\ Len(req.sourceUrl.host) = Len(d) + k
        /\ \A i \in 1..Len(d) : req.sourceUrl.host[k + i] = d[i]

C25_LowScoreRejected ==
    (validation.result.done /\ Lt(validation.result.score, 50)) =>
        validation.result.status = "rejected"

\* C29: the resolvability rule checks are deterministic: called again for
\* the same title, description and expiry, whenever that is, they return
\* the result they returned before.
C29_RulesDeterministic ==
    [][(validation.result.done /\ validation'.result.done) =>
        validation'.result.resolvabilityCheck = validation.result.resolvabilityCheck]_vars

----------------------------------------------------------------------------
(* Properties of processMarket *)

\* C26: a verdict carries the checkmark only if all three layers passed
\* and its final status is VERIFIED.
C26_CheckmarkOnlyIfVerified ==
    (pipeline.verdict.done /\ pipeline.verdict.checkmark) =>
        /\ pipeline.verdict.layer1
        /\ pipeline.verdict.layer2
        /\ pipeline.verdict.layer3
        /\ pipeline.verdict.finalStatus = "VERIFIED"

C26_Witness ==
    /\ pipeline.verdict.done
    /\ pipeline.verdict.checkmark
    /\ pipeline.verdict.finalStatus = "VERIFIED"
    /\ pipeline.market.domain = "trusted"

\* C27: for every market whose verdict is REJECTED, at whichever layer it
\* was rejected, a refund has been requested from the Djinn client.
C27_RejectedGetsRefund ==
    (pipeline.verdict.done /\ pipeline.verdict.finalStatus = "REJECTED") =>
        pipeline.verdict.refundRequested

----------------------------------------------------------------------------
(* Properties of the orchestrator *)

\* C15: after stop() has been called no new poll is started (a poll already
\* in flight may finish the markets it fetched), whenever stop() is called,
\* also while start() is still awaiting its initial poll.
C15_NoPollAfterStop ==
    orch.stopCalled => "poll" \notin orch.afterStop

\* C37: while the orchestrator is not stopped, every market fetchNewMarkets
\* returned as new is eventually processed to a verdict, unless processMarket
\* throws for that market itself: a throw for an earlier market of the same
\* poll does not keep it from its verdict.
C37_FetchedEventuallyProcessed ==
    \A m \in 1..MaxNewMarkets :
        \/ <>orch.stopCalled
        \/ (m \in orch.knownMarketIds) ~> (m \in orch.verdictFor \cup orch.failed)

\* C38: at most one polling timer is active at any time, for every
\* interleaving of start() and stop() calls.
C38_AtMostOneTimer ==
    orch.timers <= 1

====
